---- MODULE Spec2Model ----
(***************************************************************************)
(* Inference orchestration of models/common.py:                            *)
(*   DetectMultiBackend  (__init__, forward, warmup, model_type)           *)
(*   AutoShape.forward   (pre-process, inference, NMS, rescale)            *)
(*   Detections          (__init__, pandas, tolist, __len__)               *)
(*                                                                         *)
(* A file name is a sequence of atoms ("x" is a stem without '.' or '_',   *)
(* every other atom is one of the strings the export suffixes are built    *)
(* from), so that `s in p` is contiguous-subsequence search and            *)
(* Path.suffix is the part from the last atom that starts with a dot.      *)
(***************************************************************************)
EXTENDS Integers, Sequences, FiniteSets, TLC

VARIABLES
    args,      \* the weights and dnn arguments of the DetectMultiBackend(...) call
    dmb,       \* the DetectMultiBackend object (or the exception __init__ raised)
    lastOp,    \* the last forward()/warmup() call on dmb and the forward calls it made
    call,      \* AutoShape.forward: the input and the wrapped model of the call
    pc,        \* AutoShape.forward: position in the body
    loc,       \* AutoShape.forward: its locals (n, imgs, files, shape0, x, y, t, i)
    clock,     \* time_sync(): the wall clock
    log,       \* AutoShape.forward: the steps executed by the call so far
    objs,      \* Detections objects created so far (results of forward and pandas)
    ret,       \* AutoShape.forward: what the call returned
    listed     \* the last Detections.tolist() call: its receiver and the list returned

vars == <<args, dmb, lastOp, call, pc, loc, clock, log, objs, ret, listed>>
dmbVars == <<args, dmb, lastOp>>
autoVars == <<call, pc, loc, clock, log, objs, ret, listed>>

----------------------------------------------------------------------------
(* Bounds *)

MaxNameLen == 2     \* atoms in the final path component

----------------------------------------------------------------------------
(* Paths and suffixes *)

Atoms ==
    {"x", ".pt", ".torchscript", ".onnx", "_openvino_model", ".engine", ".mlmodel",
     "_saved_model", ".pb", ".tflite", "_edgetpu", "_web_model", ".xml"}

DotAtoms == {".pt", ".torchscript", ".onnx", ".engine", ".mlmodel", ".pb", ".tflite", ".xml"}

SeqsUpTo(S, n) == UNION {[1..k -> S] : k \in 0..n}

Names == SeqsUpTo(Atoms, MaxNameLen) \ {<<>>}

\* the weights argument, given by its final path component: Path(p).name and
\* Path(p).suffix read nothing else of the path
Paths == Names

\* export_formats().Suffix, in the order model_type unpacks it
ExportSuffixes ==
    << <<".pt">>, <<".torchscript">>, <<".onnx">>, <<"_openvino_model">>, <<".engine">>,
       <<".mlmodel">>, <<"_saved_model">>, <<".pb">>, <<".tflite">>,
       <<"_edgetpu", ".tflite">>, <<"_web_model">> >>

\* suffixes = list(export_formats().Suffix) + ['.xml']
Suffixes == ExportSuffixes \o << <<".xml">> >>

\* Path(p).name
PathName(p) == p

\* Path(p).suffix: from the last '.' of the final component, '' when there is none
\* or when it is the component's first character
PathSuffix(p) ==
    LET nm == PathName(p)
        dots == {i \in 2..Len(nm) : nm[i] \in DotAtoms}
    IN  IF dots = {} THEN <<>>
        ELSE LET i == CHOOSE j \in dots : \A k \in dots : k <= j
             IN  SubSeq(nm, i, Len(nm))

\* check_suffix(p, suffixes): a non-empty suffix must be one of suffixes
CheckSuffix(p) ==
    LET s == PathSuffix(p)
    IN  Len(s) = 0 \/ \E k \in 1..Len(Suffixes) : Suffixes[k] = s

\* Python's `s in p` on strings
Contains(p, s) ==
    \E i \in 0..(Len(p) - Len(s)) : SubSeq(p, i + 1, i + Len(s)) = s

FlagNames ==
    <<"pt", "jit", "onnx", "xml", "engine", "coreml", "saved_model", "pb", "tflite",
      "edgetpu", "tfjs">>

NoFlags == [f \in {FlagNames[k] : k \in 1..Len(FlagNames)} |-> FALSE]

\* DetectMultiBackend.model_type, after check_suffix has passed
model_type(p) ==
    LET nm == PathName(p)
        t == [k \in 1..Len(Suffixes) |-> Contains(nm, Suffixes[k])]
        xml2 == t[12]
    IN  [pt |-> t[1], jit |-> t[2], onnx |-> t[3],
         xml |-> (t[4] \/ xml2),
         engine |-> t[5], coreml |-> t[6], saved_model |-> t[7], pb |-> t[8],
         tflite |-> (t[9] /\ ~t[10]),
         edgetpu |-> t[10], tfjs |-> t[11]]

TrueFlags(fl) == {f \in DOMAIN fl : fl[f]}

----------------------------------------------------------------------------
(* DetectMultiBackend.__init__ *)

DeviceTypes == {"cpu", "cuda"}

\* which external step of __init__ fails, if any: attempt_download, open(data),
\* or the loader of the selected backend
InitFailures == {"none", "download", "data", "load"}

\* the branch of the if/elif chain of __init__ (lines 348-450)
InitBranch(fl, dnn) ==
    IF fl.pt THEN "pt"
    ELSE IF fl.jit THEN "jit"
    ELSE IF dnn THEN "dnn"
    ELSE IF fl.onnx THEN "onnx"
    ELSE IF fl.xml THEN "xml"
    ELSE IF fl.engine THEN "engine"
    ELSE IF fl.coreml THEN "coreml"
    ELSE IF fl.saved_model THEN "saved_model"
    ELSE IF fl.pb THEN "pb"
    ELSE IF fl.tflite \/ fl.edgetpu THEN "tflite"
    ELSE IF fl.tfjs THEN "tfjs"
    ELSE "none"

\* the backend attributes the branch leaves on self (self.model, self.output_layer,
\* and the locals copied by self.__dict__.update(locals()))
InitLoaded(branch) ==
    CASE branch = "pt" -> {"model"}
      [] branch = "jit" -> {"model"}
      [] branch = "dnn" -> {"net"}
      [] branch = "onnx" -> {"session"}
      [] branch = "xml" -> {"executable_network", "output_layer"}
      [] branch = "engine" -> {"model", "bindings", "binding_addrs", "context"}
      [] branch = "coreml" -> {"model"}
      [] branch = "saved_model" -> {"model", "keras", "tf"}
      [] branch = "pb" -> {"frozen_func", "tf"}
      [] branch = "tflite" -> {"interpreter", "input_details", "output_details"}
      [] OTHER -> {}

Raised(exc, fl) ==
    [status |-> "raised", exc |-> exc, flags |-> fl, dnn |-> FALSE, device |-> "cpu",
     fp16 |-> FALSE, branch |-> "none", loaded |-> {}, images_ptr |-> "none"]

\* the object __init__ leaves behind, or the exception it raises
Construct(w, dnn, device, fp16, data, fail, trtHalf) ==
    IF ~CheckSuffix(w) THEN Raised("AssertionError", NoFlags)
    ELSE
      LET fl == model_type(w)
          branch == InitBranch(fl, dnn)
          half == fp16 /\ (fl.pt \/ fl.jit \/ fl.onnx \/ fl.engine) /\ device # "cpu"
      IN  IF fail = "download" THEN Raised("DownloadError", fl)
          ELSE IF data /\ fail = "data" THEN Raised("OSError", fl)
          ELSE IF branch = "tfjs" THEN Raised("TFjsNotSupported", fl)
          ELSE IF branch # "none" /\ fail = "load" THEN Raised("LoadError", fl)
          ELSE [status |-> "ok", exc |-> "none", flags |-> fl, dnn |-> dnn,
                device |-> device,
                fp16 |-> IF branch = "engine" THEN trtHalf ELSE half,
                branch |-> branch, loaded |-> InitLoaded(branch),
                images_ptr |-> IF branch = "engine" THEN "alloc" ELSE "none"]

NoObject == Raised("none", NoFlags)
NoArgs == [weights |-> <<"x">>, dnn |-> FALSE]
NoOp == [op |-> "none", forwards |-> <<>>]

DetectMultiBackend__init__ ==
    /\ dmb = NoObject
    /\ \E w \in Paths, dnn \in BOOLEAN, device \in DeviceTypes, fp16 \in BOOLEAN,
          data \in BOOLEAN, fail \in InitFailures, trtHalf \in BOOLEAN :
         /\ args' = [weights |-> w, dnn |-> dnn]
         /\ dmb' = Construct(w, dnn, device, fp16, data, fail, trtHalf)
    /\ UNCHANGED <<lastOp, autoVars>>

----------------------------------------------------------------------------
(* DetectMultiBackend.forward *)

\* the branch of the if/elif chain of forward (lines 456-505)
ForwardBranch(s) ==
    IF s.flags.pt THEN "pt"
    ELSE IF s.flags.jit THEN "jit"
    ELSE IF s.dnn THEN "dnn"
    ELSE IF s.flags.onnx THEN "onnx"
    ELSE IF s.flags.xml THEN "xml"
    ELSE IF s.flags.engine THEN "engine"
    ELSE IF s.flags.coreml THEN "coreml"
    ELSE IF s.flags.saved_model THEN "saved_model"
    ELSE IF s.flags.pb THEN "pb"
    ELSE "tflite"

\* the backend attributes of self the branch reads up to and including its call
ForwardReads(branch) ==
    CASE branch = "pt" -> {"model"}
      [] branch = "jit" -> {"model"}
      [] branch = "dnn" -> {"net"}
      [] branch = "onnx" -> {"session"}
      [] branch = "xml" -> {"executable_network", "output_layer"}
      [] branch = "engine" -> {"bindings", "binding_addrs", "context"}
      [] branch = "coreml" -> {"model"}
      [] branch = "saved_model" -> {"model", "keras"}
      [] branch = "pb" -> {"frozen_func", "tf"}
      [] OTHER -> {"input_details", "output_details", "interpreter"}

\* the inference entry point the branch calls
EntryPoint(branch) ==
    CASE branch = "pt" -> "model()"
      [] branch = "jit" -> "model()"
      [] branch = "dnn" -> "net.forward"
      [] branch = "onnx" -> "session.run"
      [] branch = "xml" -> "executable_network()"
      [] branch = "engine" -> "context.execute_v2"
      [] branch = "coreml" -> "model.predict"
      [] branch = "saved_model" -> "model()"
      [] branch = "pb" -> "frozen_func"
      [] OTHER -> "interpreter.invoke"

FwdRec(branch, invoked, exc, ptr) ==
    [branch |-> branch, invoked |-> invoked, raised |-> (exc # "none"), exc |-> exc,
     ptr |-> ptr]

\* a variant of forward that calls the backend again when its call fails
ForwardCallRetry(s, rank4, shapeOk, backendOk) ==
    LET branch == ForwardBranch(s)
    IN  IF ~rank4 THEN FwdRec("none", <<>>, "ValueError", s.images_ptr)
        ELSE IF ~(ForwardReads(branch) \subseteq s.loaded)
        THEN FwdRec(branch, <<>>, "AttributeError", s.images_ptr)
        ELSE IF branch = "engine" /\ ~shapeOk
        THEN FwdRec(branch, <<>>, "AssertionError", s.images_ptr)
        ELSE FwdRec(branch,
                    IF backendOk THEN <<EntryPoint(branch)>>
                    ELSE <<EntryPoint(branch), EntryPoint(branch)>>,
                    "none",
                    IF branch = "engine" THEN "input" ELSE s.images_ptr)

\* one call of forward(im) on self = s: the backend entry points it invokes, in
\* order, whether it raises, and self.binding_addrs['images'] afterwards.
\* rank4: im.shape unpacks into b, ch, h, w; shapeOk: im.shape equals the TensorRT
\* binding shape; backendOk: the backend's call returns
ForwardCall(s, rank4, shapeOk, backendOk) ==
    LET branch == ForwardBranch(s)
    IN  IF ~rank4 THEN FwdRec("none", <<>>, "ValueError", s.images_ptr)
        ELSE IF ~(ForwardReads(branch) \subseteq s.loaded)
        THEN FwdRec(branch, <<>>, "AttributeError", s.images_ptr)
        ELSE IF branch = "engine" /\ ~shapeOk
        THEN FwdRec(branch, <<>>, "AssertionError", s.images_ptr)
        ELSE FwdRec(branch, <<EntryPoint(branch)>>,
                    IF backendOk THEN "none" ELSE "BackendError",
                    IF branch = "engine" THEN "input" ELSE s.images_ptr)

DetectMultiBackend_forward ==
    /\ dmb.status = "ok"
    /\ \E rank4 \in BOOLEAN, shapeOk \in BOOLEAN, backendOk \in BOOLEAN :
         LET f == ForwardCall(dmb, rank4, shapeOk, backendOk)
         IN  /\ lastOp' = [op |-> "forward", forwards |-> <<f>>]
             /\ dmb' = [dmb EXCEPT !.images_ptr = f.ptr]
    /\ UNCHANGED <<args, autoVars>>

----------------------------------------------------------------------------
(* DetectMultiBackend.warmup *)

\* a variant of the warmup guard that forgets the device check
WarmupAppliesAnyDevice(s) ==
    LET fl == s.flags
    IN  fl.pt \/ fl.jit \/ fl.onnx \/ fl.engine \/ fl.saved_model \/ fl.pb

\* the two guards of warmup: a warmup type, and not on the CPU
WarmupApplies(s) ==
    LET fl == s.flags
    IN  /\ fl.pt \/ fl.jit \/ fl.onnx \/ fl.engine \/ fl.saved_model \/ fl.pb
        /\ s.device # "cpu"

\* range(2 if self.jit else 1)
WarmupRounds(s) == IF s.flags.jit THEN 2 ELSE 1

\* the forward calls one call of warmup makes; a raising forward ends the loop
WarmupForwards(s, rank4, shapeOk, ok1, ok2) ==
    IF ~WarmupApplies(s) THEN <<>>
    ELSE LET f1 == ForwardCall(s, rank4, shapeOk, ok1)
             s1 == [s EXCEPT !.images_ptr = f1.ptr]
         IN  IF f1.raised \/ WarmupRounds(s) = 1 THEN <<f1>>
             ELSE <<f1, ForwardCall(s1, rank4, shapeOk, ok2)>>

DetectMultiBackend_warmup ==
    /\ dmb.status = "ok"
    /\ \E rank4 \in BOOLEAN, shapeOk \in BOOLEAN, ok1 \in BOOLEAN, ok2 \in BOOLEAN :
         LET fs == WarmupForwards(dmb, rank4, shapeOk, ok1, ok2)
         IN  /\ lastOp' = [op |-> "warmup", forwards |-> fs]
             /\ dmb' = IF fs = <<>> THEN dmb
                       ELSE [dmb EXCEPT !.images_ptr = fs[Len(fs)].ptr]
    /\ UNCHANGED <<args, autoVars>>

----------------------------------------------------------------------------
(* AutoShape.forward *)

MaxImgs == 2        \* images in a list or tuple passed to AutoShape.forward
MaxDet == 1         \* detections NMS keeps for one image
MaxObjs == 3        \* Detections objects alive at once (results, copies, list entries)

\* the kinds of one image: file name or URI, OpenCV/numpy array, PIL image
ItemKinds == {"file", "numpy", "pil"}

\* what forward may be given: a torch tensor, one image, a list or tuple of images
Inputs ==
    {[kind |-> "tensor", items |-> <<>>]}
    \cup {[kind |-> "single", items |-> <<k>>] : k \in ItemKinds}
    \cup {[kind |-> c, items |-> s] : c \in {"list", "tuple"}, s \in SeqsUpTo(ItemKinds, MaxImgs)}

\* the wrapped model: a plain PyTorch Model (dmb False), a DetectMultiBackend that
\* infers on the whole batch, or a DetectMultiBackend on CoreML, whose forward
\* passes im[0] alone to predict
ModelKinds == {"Model", "DetectMultiBackend", "DetectMultiBackend_coreml"}

Classes == {0, 1}
ClassNames == [c \in Classes |-> IF c = 0 THEN "class0" ELSE "class1"]

NoCall == [input |-> [kind |-> "tensor", items |-> <<>>], model |-> "Model"]
NoLocals == [n |-> 0, imgs |-> <<>>, files |-> <<>>, shape0 |-> <<>>, x |-> <<>>,
             y |-> <<>>, t |-> <<>>, i |-> 0]
NoReturn == [kind |-> "none", obj |-> 0, exc |-> "none"]

Step(op, i) == [op |-> op, i |-> i]
ReturnRaw == [kind |-> "raw", obj |-> 0, exc |-> "none"]
ReturnRaise(exc) == [kind |-> "raised", obj |-> 0, exc |-> exc]

\* line 580: n, imgs = (len(imgs), list(imgs)) if list or tuple else (1, [imgs])
InputImages(input) ==
    [i \in 1..Len(input.items) |-> [src |-> i, kind |-> input.items[i], arr |-> "raw"]]

\* lines 572-581: first timestamp; a tensor goes straight to the model and its
\* output is returned; anything else becomes the list of images to pre-process
AutoShape_forward_call ==
    /\ pc = "idle"
    /\ \E input \in Inputs, m \in ModelKinds, ok \in BOOLEAN :
         /\ call' = [input |-> input, model |-> m]
         /\ IF input.kind = "tensor"
            THEN /\ loc' = [NoLocals EXCEPT !.t = <<clock>>]
                 /\ log' = <<Step("time_sync", 0), Step("forward", 0)>>
                 /\ ret' = IF ok THEN ReturnRaw ELSE ReturnRaise("BackendError")
                 /\ pc' = "done"
            ELSE /\ loc' = [NoLocals EXCEPT !.t = <<clock>>,
                                            !.n = Len(input.items),
                                            !.imgs = InputImages(input),
                                            !.i = 1]
                 /\ log' = <<Step("time_sync", 0)>>
                 /\ ret' = NoReturn
                 /\ pc' = IF Len(input.items) = 0 THEN "stack" ELSE "pre"
    /\ clock' = clock + 1
    /\ UNCHANGED <<dmbVars, listed, objs>>

\* files.append(Path(f).with_suffix('.jpg').name): f is the path of a file, the
\* filename of a PIL image when it has one, and f'image{i}' otherwise
FileName(im) ==
    [of |-> im.src,
     stem |-> CASE im.kind = "file" -> "path"
                [] im.kind = "pil" -> "filename or image{i}"
                [] OTHER -> "image{i}"]

\* a variant of the loop body that names only the images read from files
PreProcessImageFilesOnly(l, i) ==
    LET im == l.imgs[i]
    IN  [l EXCEPT !.files = IF im.kind = "file" THEN Append(@, FileName(im)) ELSE @,
                  !.shape0 = Append(@, [of |-> im.src]),
                  !.imgs[i] = [src |-> im.src, kind |-> im.kind, arr |-> "HWC3"],
                  !.i = i + 1]

\* lines 582-597, one iteration: image i is opened and converted to an HWC
\* 3-channel array, its file name and original shape are appended, imgs[i] updated
PreProcessImage(l, i) ==
    LET im == l.imgs[i]
    IN  [l EXCEPT !.files = Append(@, FileName(im)),
                  !.shape0 = Append(@, [of |-> im.src]),
                  !.imgs[i] = [src |-> im.src, kind |-> im.kind, arr |-> "HWC3"],
                  !.i = i + 1]

AutoShape_forward_preprocess ==
    /\ pc = "pre"
    /\ \E ok \in BOOLEAN :
         IF loc.imgs[loc.i].kind = "file" /\ ~ok
         THEN /\ ret' = ReturnRaise("OSError")
              /\ pc' = "done"
              /\ UNCHANGED <<loc, log>>
         ELSE /\ loc' = PreProcessImage(loc, loc.i)
              /\ log' = Append(log, Step("pre", loc.i))
              /\ pc' = IF loc.i = loc.n THEN "stack" ELSE "pre"
              /\ UNCHANGED ret
    /\ UNCHANGED <<dmbVars, listed, call, clock, objs>>

\* lines 598-602: inference shape (the max over the images raises on an empty
\* list), letterbox and stack into one batch, second timestamp
AutoShape_forward_stack ==
    /\ pc = "stack"
    /\ IF loc.n = 0
       THEN /\ ret' = ReturnRaise("ValueError")
            /\ pc' = "done"
            /\ UNCHANGED <<loc, log, clock>>
       ELSE /\ loc' = [loc EXCEPT !.x = [i \in 1..loc.n |-> [of |-> loc.imgs[i].src]],
                                  !.t = Append(@, clock)]
            /\ log' = log \o <<Step("stack", 0), Step("time_sync", 0)>>
            /\ clock' = clock + 1
            /\ pc' = "infer"
            /\ UNCHANGED ret
    /\ UNCHANGED <<dmbVars, listed, call, objs>>

\* the batch rows the wrapped model returns for the batch x
ModelOutput(m, x) ==
    IF m = "DetectMultiBackend_coreml" THEN <<x[1]>> ELSE x

\* lines 606-607: one forward pass on the batch, third timestamp
AutoShape_forward_infer ==
    /\ pc = "infer"
    /\ \E ok \in BOOLEAN :
         IF ~ok
         THEN /\ ret' = ReturnRaise("BackendError")
              /\ pc' = "done"
              /\ log' = Append(log, Step("forward", 0))
              /\ UNCHANGED <<loc, clock>>
         ELSE /\ loc' = [loc EXCEPT !.y = ModelOutput(call.model, loc.x),
                                    !.t = Append(@, clock)]
              /\ log' = log \o <<Step("forward", 0), Step("time_sync", 0)>>
              /\ clock' = clock + 1
              /\ pc' = "nms"
              /\ UNCHANGED ret
    /\ UNCHANGED <<dmbVars, listed, call, objs>>

\* one detection: batch row, position, class; boxes are xyxy in the frame of the
\* letterboxed inference image until scale_coords moves them
Det(row, k, cls) ==
    [img |-> row, k |-> k, cls |-> cls, fmt |-> "xyxy", frame |-> 0, norm |-> 0]

\* non_max_suppression: one list entry per batch row, the detections kept for it
NMS(y, kept) ==
    [r \in 1..Len(y) |-> [k \in 1..Len(kept[r]) |-> Det(y[r].of, k, kept[r][k])]]

\* a variant of the NMS step that returns without rescaling the boxes
AutoShape_forward_nms_no_rescale ==
    /\ pc = "nms"
    /\ \E kept \in [1..Len(loc.y) -> SeqsUpTo(Classes, MaxDet)] :
         loc' = [loc EXCEPT !.y = NMS(loc.y, kept), !.i = 1]
    /\ log' = Append(log, Step("nms", 0))
    /\ pc' = "ret"
    /\ UNCHANGED <<dmbVars, listed, call, clock, objs, ret>>

\* lines 610-616: NMS on the model output
AutoShape_forward_nms ==
    /\ pc = "nms"
    /\ \E kept \in [1..Len(loc.y) -> SeqsUpTo(Classes, MaxDet)] :
         loc' = [loc EXCEPT !.y = NMS(loc.y, kept), !.i = 1]
    /\ log' = Append(log, Step("nms", 0))
    /\ pc' = "scale"
    /\ UNCHANGED <<dmbVars, listed, call, clock, objs, ret>>

\* scale_coords(shape1, y[i][:, :4], shape0[i]): in place, to image i's shape
ScaleCoords(dets, s0) == [k \in 1..Len(dets) |-> [dets[k] EXCEPT !.frame = s0.of]]

\* lines 617-618, one iteration; y[i] raises when NMS returned fewer than n rows
AutoShape_forward_rescale ==
    /\ pc = "scale"
    /\ IF loc.i > Len(loc.y)
       THEN /\ ret' = ReturnRaise("IndexError")
            /\ pc' = "done"
            /\ UNCHANGED <<loc, log>>
       ELSE /\ loc' = [loc EXCEPT !.y[loc.i] = ScaleCoords(@, loc.shape0[loc.i]),
                                  !.i = loc.i + 1]
            /\ log' = Append(log, Step("scale", loc.i))
            /\ pc' = IF loc.i = loc.n THEN "ret" ELSE "scale"
            /\ UNCHANGED ret
    /\ UNCHANGED <<dmbVars, listed, call, clock, objs>>

----------------------------------------------------------------------------
(* Detections *)

Min(a, b) == IF a < b THEN a ELSE b

\* xyxy2xywh on one image's boxes
XYXY2XYWH(x) == [k \in 1..Len(x) |-> [x[k] EXCEPT !.fmt = "xywh"]]

\* x / g, g the normalisation built from the shape of image im
Normalise(x, im) == [k \in 1..Len(x) |-> [x[k] EXCEPT !.norm = im.src]]

\* [f(x, g) for x, g in zip(xs, imgs)]
ZipNormalise(xs, imgs) ==
    [i \in 1..Min(Len(xs), Len(imgs)) |-> Normalise(xs[i], imgs[i])]

\* Detections.__init__ (pred is not empty: pred[0].device is read first)
DetectionsInit(imgs, pred, files, times) ==
    LET xywh == [i \in 1..Len(pred) |-> XYXY2XYWH(pred[i])]
        n == Len(pred)
    IN  [imgs |-> imgs, pred |-> pred, files |-> files, times |-> times,
         xyxy |-> pred, xywh |-> xywh,
         xyxyn |-> ZipNormalise(pred, imgs),
         xywhn |-> ZipNormalise(xywh, imgs),
         n |-> n,
         t |-> [i \in 1..3 |-> [num |-> (times[i + 1] - times[i]) * 1000, den |-> n]],
         boxes |-> "tensor"]

\* Detections.__len__
DetectionsLen(o) == o.n

\* lines 620-621: fourth timestamp, then the Detections object is built and returned
AutoShape_forward_return ==
    /\ pc = "ret"
    /\ LET t == Append(loc.t, clock)
       IN  /\ loc' = [loc EXCEPT !.t = t]
           /\ IF Len(loc.y) = 0
              THEN /\ ret' = ReturnRaise("IndexError")
                   /\ UNCHANGED objs
              ELSE /\ objs' = Append(objs, DetectionsInit(loc.imgs, loc.y, loc.files, t))
                   /\ ret' = [kind |-> "Detections", obj |-> Len(objs) + 1, exc |-> "none"]
    /\ log' = log \o <<Step("time_sync", 0), Step("Detections", 0)>>
    /\ clock' = clock + 1
    /\ pc' = "done"
    /\ UNCHANGED <<dmbVars, listed, call>>

ColumnsA == <<"xmin", "ymin", "xmax", "ymax", "confidence", "class", "name">>
ColumnsB == <<"xcenter", "ycenter", "width", "height", "confidence", "class", "name">>

\* x[:5] + [int(x[5]), self.names[int(x[5])]]
PandasRow(d) == [det |-> d, class |-> d.cls, name |-> ClassNames[d.cls]]

\* pd.DataFrame(rows of one image, columns=c)
DataFrame(x, c) == [columns |-> c, rows |-> [k \in 1..Len(x) |-> PandasRow(x[k])]]

DataFrames(xs, c) == [i \in 1..Len(xs) |-> DataFrame(xs[i], c)]

\* what pandas() builds from self = o: a shallow copy with the four box
\* attributes replaced
PandasCopy(o) ==
    [o EXCEPT !.xyxy = DataFrames(o.xyxy, ColumnsA),
              !.xyxyn = DataFrames(o.xyxyn, ColumnsA),
              !.xywh = DataFrames(o.xywh, ColumnsB),
              !.xywhn = DataFrames(o.xywhn, ColumnsB),
              !.boxes = "DataFrame"]

\* the Detections objects alive: those created by forward and pandas(), and the
\* entries of the list the last tolist() returned
Alive == Len(objs) + Len(listed.items)

\* a variant of pandas() that works on self instead of a copy (new = self)
Detections_pandas_in_place ==
    /\ pc = "done"
    /\ Alive < MaxObjs
    /\ \E r \in DOMAIN objs :
         IF objs[r].boxes = "DataFrame"
         THEN UNCHANGED objs
         ELSE objs' = [objs EXCEPT ![r] = PandasCopy(objs[r])]
    /\ UNCHANGED <<dmbVars, listed, call, pc, loc, clock, log, ret>>

\* Detections.pandas on the object r; x.tolist() raises on an object whose box
\* attributes already are DataFrames, before anything is assigned
Detections_pandas ==
    /\ pc = "done"
    /\ Alive < MaxObjs
    /\ \E r \in DOMAIN objs :
         IF objs[r].boxes = "DataFrame"
         THEN UNCHANGED objs
         ELSE objs' = Append(objs, PandasCopy(objs[r]))
    /\ UNCHANGED <<dmbVars, listed, call, pc, loc, clock, log, ret>>

NoList == [recv |-> 0, items |-> <<>>]

\* a variant of tolist() that takes the first image for every entry
ToListFirstImage(o) ==
    [i \in 1..o.n |-> DetectionsInit(<<o.imgs[1]>>, <<o.pred[1]>>, <<o.files[1]>>, o.times)]

\* lines 717-722: one Detections per image i in range(self.n), built from
\* [self.imgs[i]], [self.pred[i]], [self.files[i]] and self.times
ToList(o) ==
    [i \in 1..o.n |-> DetectionsInit(<<o.imgs[i]>>, <<o.pred[i]>>, <<o.files[i]>>, o.times)]

\* Detections.tolist on the object r; it reads imgs, pred and files, which
\* pandas() leaves as they are, and assigns nothing on self
Detections_tolist ==
    /\ pc = "done"
    /\ \E r \in DOMAIN objs :
         /\ Len(objs) + objs[r].n <= MaxObjs
         /\ listed' = [recv |-> r, items |-> ToList(objs[r])]
    /\ UNCHANGED <<dmbVars, call, pc, loc, clock, log, objs, ret>>

----------------------------------------------------------------------------
(* Specifications *)

Init ==
    /\ args = NoArgs
    /\ dmb = NoObject
    /\ lastOp = NoOp
    /\ call = NoCall
    /\ pc = "idle"
    /\ loc = NoLocals
    /\ clock = 0
    /\ log = <<>>
    /\ objs = <<>>
    /\ ret = NoReturn
    /\ listed = NoList

\* the multi-backend wrapper: construct one, then call forward and warmup on it
Next ==
    \/ DetectMultiBackend__init__
    \/ DetectMultiBackend_forward
    \/ DetectMultiBackend_warmup

Spec == Init /\ [][Next]_vars

\* one call of AutoShape.forward, then pandas() and tolist() on its result
NextAuto ==
    \/ AutoShape_forward_call
    \/ AutoShape_forward_preprocess
    \/ AutoShape_forward_stack
    \/ AutoShape_forward_infer
    \/ AutoShape_forward_nms
    \/ AutoShape_forward_rescale
    \/ AutoShape_forward_return
    \/ Detections_pandas
    \/ Detections_tolist

SpecAuto == Init /\ [][NextAuto]_vars

----------------------------------------------------------------------------
(* Properties of DetectMultiBackend, checked under Spec *)

Forwards == {lastOp.forwards[k] : k \in DOMAIN lastOp.forwards}

\* the backends in the order the claim gives, each with the condition selecting it
BackendOrder ==
    <<"pt", "jit", "dnn", "onnx", "xml", "engine", "coreml", "saved_model", "pb", "tflite">>

Selects(s, b) ==
    CASE b = "dnn" -> s.dnn
      [] b = "tflite" -> TRUE
      [] OTHER -> s.flags[b]

FirstSelected(s) ==
    LET k == CHOOSE j \in DOMAIN BackendOrder :
                 /\ Selects(s, BackendOrder[j])
                 /\ \A h \in 1..(j - 1) : ~Selects(s, BackendOrder[h])
    IN  BackendOrder[k]

\* C2 (as stated): every call of forward invokes the inference entry point of
\* exactly one backend, exactly once. Stated here for the calls that are given a
\* 4-D input, on an object for which __init__ loaded a backend.
C2_ExactlyOneBackendCall ==
    \A f \in Forwards :
        (dmb.branch # "none" /\ f.exc # "ValueError") => Len(f.invoked) = 1

\* C2 (amended): every call of forward invokes at most one backend entry point, at
\* most once, and it is the one of the first backend in the order pt, jit, dnn,
\* onnx, xml, engine, coreml, saved_model, pb, Lite/Edge TPU whose condition holds;
\* a call that returns has invoked it exactly once; a call that raises (before or in
\* the backend call) has invoked nothing after the failure.
C2_AtMostOneBackendCall ==
    \A f \in Forwards :
        /\ Len(f.invoked) <= 1
        /\ Len(f.invoked) = 1 =>
              /\ f.branch = FirstSelected(dmb)
              /\ f.invoked[1] = EntryPoint(FirstSelected(dmb))
        /\ ~f.raised => Len(f.invoked) = 1

\* C2 witness: a forward call whose backend call failed and propagated
C2_Witness ==
    /\ lastOp.op = "forward"
    /\ \E f \in Forwards : f.raised /\ f.exc = "BackendError" /\ Len(f.invoked) = 1

\* C2 witness of the zero-call case: TensorRT rejects the input shape before the call
C2_ShapeAssertionReached ==
    \E f \in Forwards : f.exc = "AssertionError" /\ f.invoked = <<>>

SuffixAccepted == dmb # NoObject /\ dmb.exc # "AssertionError"

\* C4 (as stated): for every path the suffix check accepts exactly one of the eleven
\* flags is true, tflite and edgetpu are never both true, and xml is true for
\* '*_openvino_model' and for '*.xml'. Stated here for the names that end in a
\* suffix.
C4_ExactlyOneFlag ==
    (SuffixAccepted /\ PathSuffix(args.weights) # <<>>) =>
        /\ Cardinality(TrueFlags(dmb.flags)) = 1
        /\ ~(dmb.flags.tflite /\ dmb.flags.edgetpu)
        /\ (Contains(args.weights, <<"_openvino_model">>) \/ Contains(args.weights, <<".xml">>))
              => dmb.flags.xml

\* C5 (as stated): the cv2.dnn network is loaded, and forward runs it, if and only
\* if the onnx flag and dnn are both true; with dnn set any other weight type still
\* loads its own backend. Stated here for the weights with exactly one flag set.
C5_DnnOnlyForOnnx ==
    (dmb.status = "ok" /\ Cardinality(TrueFlags(dmb.flags)) = 1) =>
        /\ ("net" \in dmb.loaded) <=> (dmb.flags.onnx /\ dmb.dnn)
        /\ \A f \in Forwards :
              (f.invoked # <<>> /\ f.invoked[1] = "net.forward") => (dmb.flags.onnx /\ dmb.dnn)

\* C6 (as stated): when tfjs is the only flag set, construction raises whatever dnn,
\* fp16 and data are.
C6_TfjsRaises ==
    (dmb # NoObject /\ TrueFlags(model_type(args.weights)) = {"tfjs"})
        => dmb.status = "raised"

\* C7 (as stated): for every backend for which warmup applies, one call of warmup
\* causes exactly one call of forward.
C7_WarmupOneForward ==
    (lastOp.op = "warmup" /\ WarmupApplies(dmb)) => Len(lastOp.forwards) = 1

WarmupTypes == {"pt", "jit", "onnx", "engine", "saved_model", "pb"}

\* C8: a call of warmup on a 'cpu' device, or on an object none of whose flags pt,
\* jit, onnx, engine, saved_model, pb is true, calls forward zero times and leaves
\* the object as it was.
C8_WarmupSkipped ==
    [][ ( /\ lastOp'.op = "warmup"
          /\ dmb.device = "cpu" \/ TrueFlags(dmb.flags) \cap WarmupTypes = {} )
        => ( /\ lastOp'.forwards = <<>>
             /\ dmb' = dmb
             /\ args' = args ) ]_vars

\* C8 witness: warmup was called on a PyTorch model on the CPU
C8_Witness ==
    /\ lastOp.op = "warmup"
    /\ dmb.device = "cpu"
    /\ dmb.flags.pt
    /\ lastOp.forwards = <<>>

\* C8 witness of the other case: warmup was called on an OpenVINO model on a GPU
C8_NonWarmupTypeReached ==
    /\ lastOp.op = "warmup"
    /\ dmb.device = "cuda"
    /\ TrueFlags(dmb.flags) = {"xml"}

----------------------------------------------------------------------------
(* Properties of AutoShape.forward and Detections, checked under SpecAuto *)

\* the number of images the call was given (a single image counts as one)
GivenImages == Len(call.input.items)

Result == objs[ret.obj]

Range1(op, n) == [i \in 1..n |-> Step(op, i)]

ExpectedLog(n) ==
    <<Step("time_sync", 0)>> \o Range1("pre", n)
    \o <<Step("stack", 0), Step("time_sync", 0), Step("forward", 0), Step("time_sync", 0),
         Step("nms", 0)>>
    \o Range1("scale", n)
    \o <<Step("time_sync", 0), Step("Detections", 0)>>

\* C1: when forward returns a Detections result, it has run, in this order and each
\* once: the first timestamp, pre-processing of images 1..n and stacking, the second
\* timestamp, one forward pass, the third timestamp, NMS, rescaling of the boxes of
\* images 1..n, the fourth timestamp, the construction of Detections; and the four
\* timestamps are the ones handed to Detections, in the order they were taken.
C1_StepOrder ==
    ret.kind = "Detections" =>
        /\ log = ExpectedLog(GivenImages)
        /\ Len(loc.t) = 4
        /\ Result.times = loc.t

\* C1 witness: forward returned Detections for two images
C1_Witness == ret.kind = "Detections" /\ GivenImages = 2

\* C3 (as stated): for every supported input kind, a call of forward that returns
\* has pre-processed, inferred, applied NMS, and returns a Detections result.
C3_AlwaysDetections ==
    (pc = "done" /\ ret.kind # "raised") =>
        /\ ret.kind = "Detections"
        /\ \E k \in DOMAIN log : log[k].op = "pre"
        /\ \E k \in DOMAIN log : log[k].op = "nms"

BoxAttributes == {"xyxy", "xywh", "xyxyn", "xywhn"}

\* C9: a Detections result of forward on k >= 1 images has len == n == k; imgs,
\* files, pred, xyxy, xywh, xyxyn, xywhn have k entries each; entry i is image i,
\* its file name, and the detections of batch row i in the frame of image i.
C9_OneEntryPerImage ==
    ret.kind = "Detections" =>
        LET o == Result
            k == GivenImages
        IN  /\ k >= 1
            /\ DetectionsLen(o) = k
            /\ o.n = k
            /\ \A a \in {"imgs", "files", "pred"} \cup BoxAttributes : Len(o[a]) = k
            /\ \A i \in 1..k :
                  /\ o.imgs[i].src = i
                  /\ o.imgs[i].kind = call.input.items[i]
                  /\ o.files[i].of = i
                  /\ \A a \in {"pred"} \cup BoxAttributes :
                        \A j \in DOMAIN o[a][i] :
                            LET d == IF o.boxes = "tensor" THEN o[a][i][j]
                                     ELSE o[a][i].rows[j].det
                            IN  d.img = i /\ d.frame = i
                  /\ \A a \in {"xyxyn", "xywhn"} :
                        \A j \in DOMAIN o[a][i] : o[a][i][j].norm = i

\* C9 witness: a result for two images, the second of which has a detection
C9_Witness ==
    /\ ret.kind = "Detections"
    /\ GivenImages = 2
    /\ Len(Result.pred[2]) >= 1

\* C10: pandas() leaves its receiver as forward built it (xyxy, xyxyn, xywh, xywhn,
\* pred, imgs, files, n, t), and the object it returns differs from the receiver in
\* the four box attributes alone, each a list of one table per image with one row
\* per detection of that image.
C10_PandasCopies ==
    ret.kind = "Detections" =>
        LET o == objs[1]
        IN  /\ o.boxes = "tensor"
            /\ o = DetectionsInit(loc.imgs, loc.y, loc.files, loc.t)
            /\ \A h \in 2..Len(objs) :
                  LET new == objs[h]
                  IN  /\ new.boxes = "DataFrame"
                      /\ \A a \in {"pred", "imgs", "files", "n", "t", "times"} :
                            new[a] = o[a]
                      /\ \A a \in BoxAttributes :
                            /\ Len(new[a]) = o.n
                            /\ \A i \in 1..o.n :
                                  /\ Len(new[a][i].rows) = Len(o.pred[i])
                                  /\ \A j \in 1..Len(o.pred[i]) :
                                        new[a][i].rows[j].det = o[a][i][j]

\* C10 witness: pandas() was called twice on a result that holds a detection
C10_Witness ==
    /\ Len(objs) >= 3
    /\ \E i \in 1..objs[1].n : Len(objs[1].pred[i]) >= 1

\* C3 witness of the failing case: forward was given a torch tensor and returned
\* the model's output
C3_TensorReturnsRaw ==
    pc = "done" /\ call.input.kind = "tensor" /\ ret.kind = "raw"

\* C11: tolist() returns a list of exactly n Detections objects in image order,
\* the i-th holding exactly imgs[i], pred[i] and files[i] of the receiver and
\* having length 1, and the receiver is afterwards what it was: the object forward
\* built, or the pandas() copy of it.
C11_ToListSplits ==
    listed.recv # 0 =>
        LET o == objs[listed.recv]
            built == DetectionsInit(loc.imgs, loc.y, loc.files, loc.t)
        IN  /\ Len(listed.items) = o.n
            /\ \A i \in 1..o.n :
                  LET d == listed.items[i]
                  IN  /\ d.imgs = <<o.imgs[i]>>
                      /\ d.pred = <<o.pred[i]>>
                      /\ d.files = <<o.files[i]>>
                      /\ DetectionsLen(d) = 1
            /\ o.boxes = IF listed.recv = 1 THEN "tensor" ELSE "DataFrame"
            /\ o = IF listed.recv = 1 THEN built ELSE PandasCopy(built)

\* C11 witness: tolist() was called on a result for two images, the second of
\* which has a detection
C11_Witness ==
    /\ listed.recv = 1
    /\ objs[1].n = 2
    /\ Len(objs[1].pred[2]) >= 1

\* C11 witness of the other receiver: tolist() was called on a pandas() copy
C11_OnPandasCopyReached ==
    listed.recv > 1 /\ Len(listed.items) >= 1

\* C12 (as stated): whenever __init__ completes without raising, forward takes the
\* branch of the backend __init__ loaded, and every attribute that branch reads was
\* assigned by __init__, so no call of forward fails on a missing attribute.
C12_ForwardReadsAssigned ==
    dmb.status = "ok" =>
        /\ ForwardBranch(dmb) = dmb.branch
        /\ ForwardReads(ForwardBranch(dmb)) \subseteq dmb.loaded
        /\ \A f \in Forwards : f.exc # "AttributeError"

\* C12 witness of the failing case: forward raised AttributeError on an object
\* that __init__ completed for
C12_MissingAttributeReached ==
    dmb.status = "ok" /\ \E f \in Forwards : f.exc = "AttributeError"

====
